---- MODULE Spec2Model ----
(***************************************************************************)
(* SequenceLabelField (allennlp/data/fields/sequence_label_field.py) as a  *)
(* state machine: one companion sequence field, the instances built so     *)
(* far, the frequency counter handed to count_vocab_items, and the outcome *)
(* of the last call.                                                       *)
(***************************************************************************)
EXTENDS Integers, Sequences, FiniteSets, TLC

\* Longest label list handed to the constructor; the companion sequence and
\* the padding lengths range a little beyond it.
MaxLen == 2
\* Cap on the call counters (count_vocab_items calls, sequence_length queries).
MaxCalls == 2

MaxTokens == MaxLen + 1
MaxPad == MaxLen + 1

(***************************************************************************)
(* Python values                                                           *)
(***************************************************************************)
\* Optional values: None, or a one-element tuple holding the value.
None == << >>
Some(x) == << x >>
Get(opt) == opt[1]

\* A label is a str or an int (Union[List[str], List[int]]).
StrLabel(s) == [kind |-> "str", s |-> s, i |-> 0]
IntLabel(n) == [kind |-> "int", s |-> "", i |-> n]
isinstance_int(x) == x.kind = "int"

StrLabels == {StrLabel("B-PER"), StrLabel("O")}
IntLabels == {IntLabel(2)}
Labels == StrLabels \cup IntLabels

LabelLists == UNION {[1..n -> Labels] : n \in 0..MaxLen}

\* Namespaces are strings; kept as character tuples so that endswith is computed.
ns_labels == <<"l", "a", "b", "e", "l", "s">>
ns_pos_tags == <<"p", "o", "s", "_", "t", "a", "g", "s">>
ns_words == <<"w", "o", "r", "d", "s">>
ns_tagset == <<"t", "a", "g", "s", "e", "t">>
Namespaces == {ns_labels, ns_pos_tags, ns_words, ns_tagset}

endswith(s, suffix) ==
    /\ Len(s) >= Len(suffix)
    /\ SubSeq(s, Len(s) - Len(suffix) + 1, Len(s)) = suffix

all_int(labels) == \A k \in 1..Len(labels) : isinstance_int(labels[k])

\* Number of positions of label list `labels` holding label l.
Occurrences(labels, l) == Cardinality({k \in 1..Len(labels) : labels[k] = l})

(***************************************************************************)
(* Collaborators                                                           *)
(***************************************************************************)
\* Vocabulary.get_token_index(label, namespace): a fixed id per vocabulary,
\* label and namespace.
Vocabularies == {1, 2}
LabelRank(label) ==
    CASE label = StrLabel("B-PER") -> 0
      [] label = StrLabel("O") -> 1
      [] OTHER -> 2
NamespaceOffset(namespace) ==
    CASE namespace = ns_labels -> 0
      [] namespace = ns_pos_tags -> 1
      [] namespace = ns_words -> 2
      [] OTHER -> 3
get_token_index(vocab, label, namespace) ==
    IF vocab = 1
    THEN LabelRank(label) + NamespaceOffset(namespace)
    ELSE (2 - LabelRank(label)) + 2 * NamespaceOffset(namespace)

\* SequenceField.sequence_length() on a reference that may be None; `tokens`
\* is the number of elements the companion holds at the time of the call.
sequence_length(sequence_field, tokens) ==
    IF sequence_field = None
    THEN [raised |-> "AttributeError", value |-> None]
    ELSE [raised |-> "none", value |-> Some(tokens)]

\* pad_sequence_to_length(sequence, desired_length), default pad value 0.
pad_sequence_to_length(sequence, desired_length) ==
    IF sequence = None
    THEN [raised |-> "TypeError", value |-> None]
    ELSE IF desired_length < Len(Get(sequence))
    THEN [raised |-> "InsufficientPaddingError", value |-> None]
    ELSE [raised |-> "none",
          value |-> Some([k \in 1..desired_length |->
                            IF k <= Len(Get(sequence)) THEN Get(sequence)[k] ELSE 0])]

\* The counter is a defaultdict: namespace -> label -> count.
ZeroCounter == [ns \in Namespaces |-> [l \in Labels |-> 0]]
UsedCounter == [ns \in Namespaces |-> [l \in Labels |-> 1]]

(***************************************************************************)
(* SequenceLabelField                                                      *)
(***************************************************************************)
\* __init__ comparing with > where the source compares with !=.
__init__accepts_short(labels, sequence_field, label_namespace, tokens) ==
    LET self0 == [_labels |-> labels,
                  _sequence_field |-> sequence_field,
                  _label_namespace |-> label_namespace,
                  _indexed_labels |-> None]
        warned == ~(endswith(label_namespace, <<"t", "a", "g", "s">>)
                    \/ endswith(label_namespace, <<"l", "a", "b", "e", "l", "s">>))
        length == sequence_length(sequence_field, tokens)
    IN  IF length.raised # "none"
        THEN [raised |-> length.raised, self |-> None, warned |-> warned,
              message |-> None, queries |-> 0]
        ELSE IF Len(labels) > Get(length.value)
        THEN [raised |-> "ConfigurationError", self |-> None, warned |-> warned,
              message |-> Some(<<Len(labels), Get(length.value)>>), queries |-> 2]
        ELSE IF all_int(labels)
        THEN [raised |-> "none",
              self |-> Some([self0 EXCEPT !._indexed_labels =
                               Some([k \in 1..Len(labels) |-> labels[k].i])]),
              warned |-> warned, message |-> None, queries |-> 1]
        ELSE [raised |-> "none", self |-> Some(self0), warned |-> warned,
              message |-> None, queries |-> 1]

\* __init__ raising ConfigurationError where the source logs the warning.
__init__warning_raises(labels, sequence_field, label_namespace, tokens) ==
    LET self0 == [_labels |-> labels,
                  _sequence_field |-> sequence_field,
                  _label_namespace |-> label_namespace,
                  _indexed_labels |-> None]
        warned == ~(endswith(label_namespace, <<"t", "a", "g", "s">>)
                    \/ endswith(label_namespace, <<"l", "a", "b", "e", "l", "s">>))
        length == sequence_length(sequence_field, tokens)
    IN  IF warned
        THEN [raised |-> "ConfigurationError", self |-> None, warned |-> warned,
              message |-> None, queries |-> 0]
        ELSE IF length.raised # "none"
        THEN [raised |-> length.raised, self |-> None, warned |-> warned,
              message |-> None, queries |-> 0]
        ELSE IF Len(labels) # Get(length.value)
        THEN [raised |-> "ConfigurationError", self |-> None, warned |-> warned,
              message |-> Some(<<Len(labels), Get(length.value)>>), queries |-> 2]
        ELSE IF all_int(labels)
        THEN [raised |-> "none",
              self |-> Some([self0 EXCEPT !._indexed_labels =
                               Some([k \in 1..Len(labels) |-> labels[k].i])]),
              warned |-> warned, message |-> None, queries |-> 1]
        ELSE [raised |-> "none", self |-> Some(self0), warned |-> warned,
              message |-> None, queries |-> 1]

\* __init__ testing any(...) where the source tests all(...).
__init__any_int(labels, sequence_field, label_namespace, tokens) ==
    LET self0 == [_labels |-> labels,
                  _sequence_field |-> sequence_field,
                  _label_namespace |-> label_namespace,
                  _indexed_labels |-> None]
        warned == ~(endswith(label_namespace, <<"t", "a", "g", "s">>)
                    \/ endswith(label_namespace, <<"l", "a", "b", "e", "l", "s">>))
        length == sequence_length(sequence_field, tokens)
    IN  IF length.raised # "none"
        THEN [raised |-> length.raised, self |-> None, warned |-> warned,
              message |-> None, queries |-> 0]
        ELSE IF Len(labels) # Get(length.value)
        THEN [raised |-> "ConfigurationError", self |-> None, warned |-> warned,
              message |-> Some(<<Len(labels), Get(length.value)>>), queries |-> 2]
        ELSE IF \E k \in 1..Len(labels) : isinstance_int(labels[k])
        THEN [raised |-> "none",
              self |-> Some([self0 EXCEPT !._indexed_labels =
                               Some([k \in 1..Len(labels) |-> labels[k].i])]),
              warned |-> warned, message |-> None, queries |-> 1]
        ELSE [raised |-> "none", self |-> Some(self0), warned |-> warned,
              message |-> None, queries |-> 1]

\* __init__(labels, sequence_field, label_namespace): the instance built, the
\* exception raised, the warning logged, and how often the companion was asked.
__init__(labels, sequence_field, label_namespace, tokens) ==
    LET self0 == [_labels |-> labels,
                  _sequence_field |-> sequence_field,
                  _label_namespace |-> label_namespace,
                  _indexed_labels |-> None]
        warned == ~(endswith(label_namespace, <<"t", "a", "g", "s">>)
                    \/ endswith(label_namespace, <<"l", "a", "b", "e", "l", "s">>))
        length == sequence_length(sequence_field, tokens)
    IN  IF length.raised # "none"
        THEN [raised |-> length.raised, self |-> None, warned |-> warned,
              message |-> None, queries |-> 0]
        ELSE IF Len(labels) # Get(length.value)
        THEN [raised |-> "ConfigurationError", self |-> None, warned |-> warned,
              message |-> Some(<<Len(labels), Get(length.value)>>), queries |-> 2]
        ELSE IF all_int(labels)
        THEN [raised |-> "none",
              self |-> Some([self0 EXCEPT !._indexed_labels =
                               Some([k \in 1..Len(labels) |-> labels[k].i])]),
              warned |-> warned, message |-> None, queries |-> 1]
        ELSE [raised |-> "none", self |-> Some(self0), warned |-> warned,
              message |-> None, queries |-> 1]

\* for label in labels: counter[namespace][label] += 1
RECURSIVE count_each(_, _, _)
count_each(counter, namespace, labels) ==
    IF labels = << >>
    THEN counter
    ELSE count_each([counter EXCEPT ![namespace][Head(labels)] = @ + 1],
                    namespace, Tail(labels))

\* count_vocab_items without the test on _indexed_labels.
count_vocab_items_unguarded(self, counter) ==
    [self |-> self,
     counter |-> count_each(counter, self._label_namespace, self._labels)]

\* count_vocab_items iterating over set(labels): each distinct label once.
count_vocab_items_distinct(self, counter) ==
    [self |-> self,
     counter |->
        IF self._indexed_labels = None
        THEN [counter EXCEPT ![self._label_namespace] =
                [l \in Labels |->
                    IF Occurrences(self._labels, l) > 0 THEN @[l] + 1 ELSE @[l]]]
        ELSE counter]

\* count_vocab_items remembering that it ran by setting _indexed_labels = [].
count_vocab_items_marks_indexed(self, counter) ==
    IF self._indexed_labels = None
    THEN [self |-> [self EXCEPT !._indexed_labels = Some(<< >>)],
          counter |-> count_each(counter, self._label_namespace, self._labels)]
    ELSE [self |-> self, counter |-> counter]

\* count_vocab_items(self, counter): the instance and the counter afterwards.
count_vocab_items(self, counter) ==
    [self |-> self,
     counter |->
        IF self._indexed_labels = None
        THEN count_each(counter, self._label_namespace, self._labels)
        ELSE counter]

\* index without the test on _indexed_labels: every call looks the labels up again.
index_always_recomputes(self, vocab) ==
    [self EXCEPT !._indexed_labels =
       Some([k \in 1..Len(self._labels) |->
               get_token_index(vocab, self._labels[k], self._label_namespace)])]

\* index looking the labels up in the default namespace 'labels'.
index_default_namespace(self, vocab) ==
    IF self._indexed_labels = None
    THEN [self EXCEPT !._indexed_labels =
            Some([k \in 1..Len(self._labels) |->
                    get_token_index(vocab, self._labels[k], ns_labels)])]
    ELSE self

\* index storing the ids over the raw labels as well.
index_in_place(self, vocab) ==
    IF self._indexed_labels = None
    THEN [self EXCEPT
            !._indexed_labels =
               Some([k \in 1..Len(self._labels) |->
                       get_token_index(vocab, self._labels[k], self._label_namespace)]),
            !._labels =
               [k \in 1..Len(self._labels) |->
                   IntLabel(get_token_index(vocab, self._labels[k],
                                            self._label_namespace))]]
    ELSE self

\* index(self, vocab): the instance afterwards.
index(self, vocab) ==
    IF self._indexed_labels = None
    THEN [self EXCEPT !._indexed_labels =
            Some([k \in 1..Len(self._labels) |->
                    get_token_index(vocab, self._labels[k], self._label_namespace)])]
    ELSE self

\* get_padding_lengths answering with len(self._labels) and not asking the companion.
get_padding_lengths_own_length(self, tokens) ==
    [raised |-> "none", value |-> Some([num_tokens |-> Len(self._labels)]),
     queries |-> 0]

\* get_padding_lengths(self): {'num_tokens': ...} or the exception raised, and
\* how often the companion was asked.
get_padding_lengths(self, tokens) ==
    LET length == sequence_length(self._sequence_field, tokens)
    IN  IF length.raised # "none"
        THEN [raised |-> length.raised, value |-> None, queries |-> 0]
        ELSE [raised |-> "none", value |-> Some([num_tokens |-> Get(length.value)]),
              queries |-> 1]

\* as_array padding to the instance's own length and not to the requested one.
as_array_own_length(self, padding_lengths) ==
    pad_sequence_to_length(self._indexed_labels, Len(self._labels))

\* as_array padding `self._indexed_labels or []`.
as_array_none_as_empty(self, padding_lengths) ==
    LET desired_num_tokens == padding_lengths.num_tokens
    IN  pad_sequence_to_length(IF self._indexed_labels = None THEN Some(<< >>)
                               ELSE self._indexed_labels,
                               desired_num_tokens)

\* as_array slicing the ids to the requested length before padding them.
as_array_sliced(self, padding_lengths) ==
    LET desired_num_tokens == padding_lengths.num_tokens
    IN  IF self._indexed_labels = None
        THEN pad_sequence_to_length(self._indexed_labels, desired_num_tokens)
        ELSE pad_sequence_to_length(
                 Some([k \in 1..(IF desired_num_tokens < Len(Get(self._indexed_labels))
                                 THEN desired_num_tokens
                                 ELSE Len(Get(self._indexed_labels))) |->
                         Get(self._indexed_labels)[k]]),
                 desired_num_tokens)

\* as_array(self, padding_lengths): the array (numpy.asarray keeps the padded
\* list's elements and order) or the exception raised.
as_array(self, padding_lengths) ==
    LET desired_num_tokens == padding_lengths.num_tokens
    IN  pad_sequence_to_length(self._indexed_labels, desired_num_tokens)

\* empty_field(self): SequenceLabelField([], None) with _indexed_labels = [].
empty_field(self, tokens) ==
    LET made == __init__(<< >>, None, ns_labels, tokens)
    IN  IF made.raised # "none"
        THEN made
        ELSE [made EXCEPT !.self = Some([Get(made.self) EXCEPT !._indexed_labels = Some(<< >>)])]

\* labels(self)
labels(self) == self._labels

(***************************************************************************)
(* State                                                                   *)
(***************************************************************************)
VARIABLES
    phase,        \* "new" before the constructor ran, "built" after it
    tokens,       \* number of elements the companion sequence field holds
    fields,       \* the SequenceLabelField instances that exist, oldest first
    counter,      \* the frequency counter handed to count_vocab_items
    result,       \* the last call and its outcome
    counter0,     \* the counter as it was before any call
    count_calls,  \* count_vocab_items calls made on fields[1]
    queries,      \* sequence_length() calls made on the companion
    warnings,     \* warnings logged
    changed       \* the companion's length changed after construction

vars == <<phase, tokens, fields, counter, result, counter0, count_calls, queries,
          warnings, changed>>

NoResult == [op |-> "none", target |-> 0, raised |-> "none", value |-> None,
             arg |-> None, before |-> None, message |-> None]

Init ==
    /\ phase = "new"
    /\ tokens \in 0..MaxLen
    /\ fields = << >>
    /\ counter \in {ZeroCounter, UsedCounter}
    /\ counter0 = counter
    /\ result = NoResult
    /\ count_calls = 0
    /\ queries = 0
    /\ warnings = 0
    /\ changed = FALSE

\* SequenceLabelField(labels, sequence_field, label_namespace)
Construct ==
    /\ phase = "new"
    /\ \E ls \in LabelLists, ns \in Namespaces :
         LET made == __init__(ls, Some("sequence_field"), ns, tokens)
         IN  /\ phase' = "built"
             /\ fields' = IF made.raised = "none" THEN <<Get(made.self)>> ELSE << >>
             /\ queries' = made.queries
             /\ warnings' = IF made.warned THEN 1 ELSE 0
             /\ result' = [NoResult EXCEPT !.op = "__init__",
                                           !.raised = made.raised,
                                           !.value = made.self,
                                           !.arg = Some([labels |-> ls, namespace |-> ns]),
                                           !.message = made.message]
    /\ UNCHANGED <<tokens, counter, counter0, count_calls, changed>>

CountVocabItems ==
    /\ count_calls < MaxCalls
    /\ \E t \in DOMAIN fields :
         /\ counter' = count_vocab_items(fields[t], counter).counter
         /\ fields' = [fields EXCEPT ![t] = count_vocab_items(fields[t], counter).self]
         /\ count_calls' = IF t = 1 THEN count_calls + 1 ELSE count_calls
         /\ result' = [NoResult EXCEPT !.op = "count_vocab_items", !.target = t,
                                       !.before = Some(fields[t])]
    /\ UNCHANGED <<phase, tokens, counter0, queries, warnings, changed>>

Index ==
    \E t \in DOMAIN fields, vocab \in Vocabularies :
      /\ fields' = [fields EXCEPT ![t] = index(fields[t], vocab)]
      /\ result' = [NoResult EXCEPT !.op = "index", !.target = t,
                                    !.arg = Some(vocab), !.before = Some(fields[t])]
      /\ UNCHANGED <<phase, tokens, counter, counter0, count_calls, queries, warnings,
                     changed>>

GetPaddingLengths ==
    /\ queries < MaxCalls
    /\ \E t \in DOMAIN fields :
         LET got == get_padding_lengths(fields[t], tokens)
         IN  /\ result' = [NoResult EXCEPT !.op = "get_padding_lengths", !.target = t,
                                           !.raised = got.raised, !.value = got.value,
                                           !.before = Some(fields[t])]
             /\ queries' = queries + got.queries
    /\ UNCHANGED <<phase, tokens, fields, counter, counter0, count_calls, warnings,
                   changed>>

AsArray ==
    \E t \in DOMAIN fields, K \in 0..MaxPad :
      LET got == as_array(fields[t], [num_tokens |-> K])
      IN  /\ result' = [NoResult EXCEPT !.op = "as_array", !.target = t,
                                        !.raised = got.raised, !.value = got.value,
                                        !.arg = Some(K), !.before = Some(fields[t])]
          /\ UNCHANGED <<phase, tokens, fields, counter, counter0, count_calls, queries,
                         warnings, changed>>

EmptyField ==
    \E t \in DOMAIN fields :
      LET made == empty_field(fields[t], tokens)
      IN  /\ Len(fields) = 1
          /\ fields' = IF made.raised = "none" THEN Append(fields, Get(made.self)) ELSE fields
          /\ warnings' = IF made.warned THEN warnings + 1 ELSE warnings
          /\ result' = [NoResult EXCEPT !.op = "empty_field", !.target = t,
                                        !.raised = made.raised, !.value = made.self,
                                        !.before = Some(fields[t])]
          /\ UNCHANGED <<phase, tokens, counter, counter0, count_calls, queries, changed>>

LabelsAccessor ==
    \E t \in DOMAIN fields :
      /\ result' = [NoResult EXCEPT !.op = "labels", !.target = t,
                                    !.value = Some(labels(fields[t])),
                                    !.before = Some(fields[t])]
      /\ UNCHANGED <<phase, tokens, fields, counter, counter0, count_calls, queries,
                     warnings, changed>>

\* The caller appends an element to, or removes one from, the companion sequence.
SequenceFieldChange ==
    /\ fields # << >>
    /\ \E n \in {tokens - 1, tokens + 1} :
         /\ n \in 0..MaxTokens
         /\ tokens' = n
    /\ changed' = TRUE
    /\ result' = NoResult
    /\ UNCHANGED <<phase, fields, counter, counter0, count_calls, queries, warnings>>

Next ==
    \/ Construct
    \/ CountVocabItems
    \/ Index
    \/ GetPaddingLengths
    \/ AsArray
    \/ EmptyField
    \/ LabelsAccessor
    \/ SequenceFieldChange

Spec == Init /\ [][Next]_vars

(***************************************************************************)
(* Properties                                                              *)
(***************************************************************************)
N(self) == Len(self._labels)
Unresolved(self) == self._indexed_labels = None
resolved_ids(self) == Get(self._indexed_labels)

\* C1: construction succeeds if and only if len(labels) equals the length the
\* companion reports; otherwise it raises ConfigurationError carrying both
\* lengths and no instance exists.
ConstructionSucceedsIffLengthsMatch ==
    result.op = "__init__" =>
        LET L == Get(result.arg).labels
        IN  /\ (result.raised = "none") <=> (Len(L) = tokens)
            /\ Len(L) = tokens =>
                 /\ Len(fields) = 1
                 /\ fields[1]._labels = L
                 /\ result.value = Some(fields[1])
            /\ Len(L) # tokens =>
                 /\ result.raised = "ConfigurationError"
                 /\ result.message = Some(<<Len(L), tokens>>)
                 /\ result.value = None
                 /\ fields = << >>

\* C1 witness: one label against a companion of length 2 was rejected.
ConstructionRejectedOneAgainstTwo ==
    /\ result.op = "__init__"
    /\ Len(Get(result.arg).labels) = 1
    /\ tokens = 2
    /\ result.raised = "ConfigurationError"

\* C2: as_array on a resolved instance with K >= N returns exactly K integers,
\* the resolved ids in order followed by K - N zeros.
PaddingCorrect ==
    result.op = "as_array" =>
        LET self == fields[result.target]
            K == Get(result.arg)
        IN  (~Unresolved(self) /\ K >= N(self)) =>
                /\ result.raised = "none"
                /\ result.value # None
                /\ Len(Get(result.value)) = K
                /\ \A k \in 1..K :
                     Get(result.value)[k] =
                        IF k <= N(self) THEN resolved_ids(self)[k] ELSE 0

\* C2 witness: two string labels indexed to nonzero ids and padded to three.
PaddedTwoIdsToThree ==
    /\ result.op = "as_array"
    /\ Get(result.arg) = 3
    /\ fields[result.target]._labels = <<StrLabel("O"), StrLabel("B-PER")>>
    /\ result.value = Some(<<2, 1, 0>>)

\* C3: empty_field always succeeds and returns an instance with no labels and
\* resolved_ids = [], whose as_array is K zeros for every K.
EmptyFieldSucceeds ==
    result.op = "empty_field" =>
        /\ result.raised = "none"
        /\ result.value # None
        /\ Get(result.value)._labels = << >>
        /\ Get(result.value)._indexed_labels = Some(<< >>)
        /\ \A K \in 0..MaxPad :
             as_array(Get(result.value), [num_tokens |-> K]) =
                [raised |-> "none", value |-> Some([k \in 1..K |-> 0])]

\* C4: index is idempotent: indexing twice with one vocabulary gives the
\* ids of indexing once, and a call on an instance that is already resolved
\* changes nothing.
IndexIdempotent ==
    /\ \A t \in DOMAIN fields, v \in Vocabularies :
         index(index(fields[t], v), v) = index(fields[t], v)
    /\ (result.op = "index" /\ ~Unresolved(Get(result.before))) =>
         fields[result.target] = Get(result.before)

\* C4 witness: a string-labelled instance indexed with vocabulary 1 was
\* indexed again with vocabulary 2, which assigns other ids.
IndexedAgainWithOtherVocabulary ==
    /\ result.op = "index"
    /\ Get(result.arg) = 2
    /\ Get(result.before)._labels = <<StrLabel("B-PER"), StrLabel("O")>>
    /\ Get(result.before)._label_namespace = ns_labels
    /\ Get(result.before)._indexed_labels = Some(<<0, 1>>)

\* C5: after index returns, resolved_ids is present with length N; when the
\* instance was unresolved before, each id is the vocabulary's id of the raw
\* label at that position in the instance's own namespace.
IndexResolves ==
    result.op = "index" =>
        LET self == fields[result.target]
            before == Get(result.before)
        IN  /\ result.raised = "none"
            /\ ~Unresolved(self)
            /\ Len(resolved_ids(self)) = N(self)
            /\ Unresolved(before) =>
                 \A k \in 1..N(self) :
                    resolved_ids(self)[k] =
                       get_token_index(Get(result.arg), self._labels[k],
                                       self._label_namespace)

\* C5 witness: an unresolved instance in a namespace other than 'labels' was
\* indexed.
IndexedUnresolvedInWords ==
    /\ result.op = "index"
    /\ Unresolved(Get(result.before))
    /\ N(Get(result.before)) = 2
    /\ Get(result.before)._label_namespace = ns_words

\* C6: an instance whose labels are all integers has resolved_ids equal to
\* its raw labels from construction on, count_vocab_items on it leaves the
\* counter as it was and index leaves resolved_ids as they were.
IntegerLabelsBypassVocabulary ==
    \A t \in DOMAIN fields :
       (all_int(fields[t]._labels) /\ fields[t]._sequence_field # None) =>
          /\ fields[t]._indexed_labels =
                Some([k \in 1..N(fields[t]) |-> fields[t]._labels[k].i])
          /\ counter = counter0
          /\ (result.op = "index" /\ result.target = t) =>
                fields[t] = Get(result.before)

\* C6 witness: an integer-labelled instance after count_vocab_items and index.
IntegerLabelsCountedAndIndexed ==
    /\ Len(fields) >= 1
    /\ N(fields[1]) >= 1
    /\ all_int(fields[1]._labels)
    /\ count_calls >= 1
    /\ result.op = "index"

\* C7 as stated: get_padding_lengths always returns {num_tokens: N}, N the
\* number of raw labels the instance holds.
PaddingLengthIsOwnLength ==
    result.op = "get_padding_lengths" =>
        /\ result.raised = "none"
        /\ result.value = Some([num_tokens |-> N(fields[result.target])])

\* C7 amended: get_padding_lengths returns {num_tokens: M}, M the length the
\* companion sequence field reports at the time of the call; M is N as long
\* as the companion's length has not changed since construction.
PaddingLengthIsCompanionLength ==
    result.op = "get_padding_lengths" =>
        /\ result.raised = "none"
        /\ result.value = Some([num_tokens |-> tokens])
        /\ ~changed => result.value = Some([num_tokens |-> N(fields[result.target])])

\* C7 witness: the companion grew after construction and get_padding_lengths
\* was called.
PaddingLengthAfterCompanionGrew ==
    /\ result.op = "get_padding_lengths"
    /\ changed
    /\ tokens > N(fields[result.target])

\* C8: as_array on an instance whose resolved_ids is absent ends in an error
\* for every K and returns no array.
AsArrayUnresolvedFails ==
    (result.op = "as_array" /\ Unresolved(fields[result.target])) =>
        /\ result.raised # "none"
        /\ result.value = None

\* C8 witness: as_array was called with K = 3 on an unresolved instance with
\* two labels.
AsArrayCalledUnresolved ==
    /\ result.op = "as_array"
    /\ Unresolved(fields[result.target])
    /\ N(fields[result.target]) = 2
    /\ Get(result.arg) = 3

CountAddsOccurrencesPerCall ==
    (Len(fields) >= 1 /\ Unresolved(fields[1])) =>
        \A ns \in Namespaces, l \in Labels :
           counter[ns][l] =
              counter0[ns][l] +
                 (IF ns = fields[1]._label_namespace
                  THEN count_calls * Occurrences(fields[1]._labels, l)
                  ELSE 0)

\* C10 witness: two calls on an unresolved instance holding the same label
\* twice added four to that label's count.
CountedTwiceTwoOccurrences ==
    /\ Len(fields) >= 1
    /\ Unresolved(fields[1])
    /\ fields[1]._labels = <<StrLabel("O"), StrLabel("O")>>
    /\ count_calls = 2
    /\ counter[fields[1]._label_namespace][StrLabel("O")] =
          counter0[fields[1]._label_namespace][StrLabel("O")] + 4

\* C11: Resolved is terminal: in every step, an instance whose resolved_ids
\* is present still exists afterwards with the same resolved_ids.
ResolvedIsTerminal ==
    [][\A t \in DOMAIN fields :
          ~Unresolved(fields[t]) =>
             /\ t \in DOMAIN fields'
             /\ fields'[t]._indexed_labels = fields[t]._indexed_labels]_vars

\* C11 witness: a string-labelled instance resolved with vocabulary 2 was
\* handed to index again with vocabulary 1 and kept its ids.
ResolvedKeptIdsUnderOtherVocabulary ==
    /\ result.op = "index"
    /\ Get(result.arg) = 1
    /\ Get(result.before)._labels = <<StrLabel("B-PER"), StrLabel("O")>>
    /\ Get(result.before)._label_namespace = ns_labels
    /\ Get(result.before)._indexed_labels = Some(<<2, 1>>)
    /\ fields[result.target]._indexed_labels = Some(<<2, 1>>)

\* C12 as stated: over an instance's lifetime the companion is queried exactly
\* once, during construction.
CompanionQueriedOnce ==
    fields # << >> => queries = 1

\* C12 amended: a successful construction queries the companion once; after
\* it, every get_padding_lengths call queries it once more and no other
\* operation queries it.
CompanionQueriedByPaddingQueryOnly ==
    [][/\ (phase = "new" /\ fields' # << >>) => queries' = 1
       /\ fields # << >> =>
             queries' = queries +
                (IF result'.op = "get_padding_lengths" THEN 1 ELSE 0)]_vars

\* C12 witness: get_padding_lengths queried the companion a second time, after
\* count_vocab_items had run.
CompanionQueriedAgain ==
    /\ result.op = "get_padding_lengths"
    /\ count_calls >= 1
    /\ queries = 2

\* C13: once a string-labelled instance has been indexed, every
\* count_vocab_items call on it leaves the whole counter unchanged.
CountAfterIndexCountsNothing ==
    [][(/\ result'.op = "count_vocab_items"
        /\ result'.target \in DOMAIN fields
        /\ ~Unresolved(fields[result'.target])
        /\ ~all_int(fields[result'.target]._labels)) =>
          counter' = counter]_vars

\* C13 witness: the first count_vocab_items call on a string-labelled
\* instance came after index, and the counter is still the initial one.
CountedFirstAfterIndex ==
    /\ result.op = "count_vocab_items"
    /\ count_calls = 1
    /\ ~Unresolved(Get(result.before))
    /\ Get(result.before)._labels = <<StrLabel("B-PER"), StrLabel("O")>>
    /\ counter = counter0

\* C14: count_vocab_items leaves the instance (raw labels, namespace,
\* resolved_ids) exactly as it was, so an unresolved instance stays unresolved
\* and index resolves it as it would have without the call.
CountChangesOnlyCounter ==
    result.op = "count_vocab_items" =>
        LET self == fields[result.target]
            before == Get(result.before)
        IN  /\ self._labels = before._labels
            /\ self._label_namespace = before._label_namespace
            /\ self._indexed_labels = before._indexed_labels
            /\ Unresolved(before) => Unresolved(self)
            /\ \A v \in Vocabularies : index(self, v) = index(before, v)

\* C14 witness: count_vocab_items ran twice on an instance that is still
\* unresolved.
CountedTwiceStillUnresolved ==
    /\ result.op = "count_vocab_items"
    /\ count_calls = 2
    /\ N(fields[result.target]) = 2
    /\ Unresolved(fields[result.target])
    /\ counter # counter0

\* C15: the raw labels are fixed at construction: the constructor stores the
\* list it is given, no step changes the raw labels of an instance, and
\* labels() returns them.
LabelsFixedAtConstruction ==
    [][/\ (phase = "new" /\ fields' # << >>) =>
             fields'[1]._labels = Get(result'.arg).labels
       /\ \A t \in DOMAIN fields :
             /\ t \in DOMAIN fields'
             /\ fields'[t]._labels = fields[t]._labels
       /\ result'.op = "labels" =>
             result'.value = Some(fields[result'.target]._labels)]_vars

\* C15 witness: labels() was called on a string-labelled instance after
\* count_vocab_items and index and returned the strings.
LabelsReturnedAfterIndexing ==
    /\ result.op = "labels"
    /\ count_calls >= 1
    /\ ~Unresolved(fields[result.target])
    /\ result.value = Some(<<StrLabel("O"), StrLabel("B-PER")>>)

\* C16: the constructor logs the namespace warning exactly when the namespace
\* ends neither in 'tags' nor in 'labels', and its outcome (instance or
\* mismatch error, resolved or unresolved) is the one every other namespace
\* gives for the same labels and companion.
WarningNeverBlocksConstruction ==
    result.op = "__init__" =>
        LET L == Get(result.arg).labels
            ns == Get(result.arg).namespace
        IN  /\ warnings = (IF ns \in {ns_labels, ns_pos_tags} THEN 0 ELSE 1)
            /\ \A other \in Namespaces :
                  LET made == __init__(L, Some("sequence_field"), other, tokens)
                  IN  /\ made.raised = result.raised
                      /\ made.message = result.message
                      /\ (made.self = None) <=> (result.value = None)
                      /\ made.self # None =>
                            Get(made.self) =
                               [Get(result.value) EXCEPT !._label_namespace = other]

\* C16 witness: an instance was built in namespace 'words' and the warning
\* was logged.
BuiltWithWarning ==
    /\ result.op = "__init__"
    /\ Get(result.arg).namespace = ns_words
    /\ result.raised = "none"
    /\ Len(fields) = 1
    /\ N(fields[1]) = 2
    /\ warnings = 1

\* C17: a constructed instance is resolved at construction exactly when every
\* raw label is an integer (an empty list included, with resolved_ids = []);
\* a list mixing integers and strings is unresolved, and count_vocab_items
\* and index then count and look up its integers like its strings.
ResolvedAtConstructionIffAllIntegers ==
    /\ (result.op = "__init__" /\ result.raised = "none") =>
          /\ ~Unresolved(fields[1]) <=>
                (\A k \in 1..N(fields[1]) : fields[1]._labels[k].kind = "int")
          /\ N(fields[1]) = 0 =>
                (fields[1]._indexed_labels = Some(<< >>) /\ counter = counter0)
    /\ \A t \in DOMAIN fields :
          LET mixed == \E j, k \in 1..N(fields[t]) :
                          /\ fields[t]._labels[j].kind = "int"
                          /\ fields[t]._labels[k].kind = "str"
          IN  mixed =>
                /\ Unresolved(fields[t]) =>
                      \A l \in IntLabels :
                         counter[fields[t]._label_namespace][l] =
                            counter0[fields[t]._label_namespace][l]
                               + count_calls * Occurrences(fields[t]._labels, l)
                /\ (result.op = "index" /\ result.target = t
                       /\ Unresolved(Get(result.before))) =>
                      \A k \in 1..N(fields[t]) :
                         resolved_ids(fields[t])[k] =
                            get_token_index(Get(result.arg), fields[t]._labels[k],
                                            fields[t]._label_namespace)

\* C17 witness: the mixed list [2, 'O'] was counted while unresolved and then
\* indexed.
MixedListCountedAndIndexed ==
    /\ result.op = "index"
    /\ Unresolved(Get(result.before))
    /\ fields[result.target]._labels = <<IntLabel(2), StrLabel("O")>>
    /\ counter[fields[result.target]._label_namespace][IntLabel(2)] =
          counter0[fields[result.target]._label_namespace][IntLabel(2)] + 1

====
